---- MODULE Spec2Model ----
(***************************************************************************)
(* Model of fetch_and_store.py: the schema-tolerant extraction of          *)
(* observation rows (parse_locations) and precipitation rows               *)
(* (parse_precipitation) from a decoded JSON document, and their storage   *)
(* (insert_rows, insert_precip_rows).                                      *)
(*                                                                         *)
(* A decoded JSON value is a record [t, s, n, items]:                      *)
(*   t = "null" | "bool" | "int" | "float" | "str" | "list" | "dict"       *)
(*   s      the text of a str                                              *)
(*   n      the value of an int, 0/1 of a bool, the TENTHS of a float      *)
(*   items  the entries [k, v] of a dict in insertion order, or the        *)
(*          elements of a list (k = "")                                    *)
(***************************************************************************)
EXTENDS Integers, Sequences, FiniteSets, TLC

----------------------------------------------------------------------------
(* Python values *)

None == [t |-> "null", s |-> "", n |-> 0, items |-> <<>>]
BoolV(b) == [t |-> "bool", s |-> "", n |-> IF b THEN 1 ELSE 0, items |-> <<>>]
IntV(i) == [t |-> "int", s |-> "", n |-> i, items |-> <<>>]
FloatV(tenths) == [t |-> "float", s |-> "", n |-> tenths, items |-> <<>>]
StrV(x) == [t |-> "str", s |-> x, n |-> 0, items |-> <<>>]
Entry(key, val) == [k |-> key, v |-> val]
ListV(elems) == [t |-> "list", s |-> "", n |-> 0,
                items |-> [i \in 1..Len(elems) |-> Entry("", elems[i])]]
DictV(entries) == [t |-> "dict", s |-> "", n |-> 0, items |-> entries]

IsDict(x) == x.t = "dict"
IsList(x) == x.t = "list"

\* The elements of a list, and the keys of a dict, in order.
Elems(x) == [i \in 1..Len(x.items) |-> x.items[i].v]
Keys(x) == [i \in 1..Len(x.items) |-> x.items[i].k]

\* bool(x): Python truthiness.
Truthy(x) ==
    CASE x.t = "null" -> FALSE
      [] x.t \in {"bool", "int", "float"} -> x.n # 0
      [] x.t = "str" -> x.s # ""
      [] OTHER -> Len(x.items) > 0

\* x in (None, "")
IsNoneOrEmpty(x) == x = None \/ x = StrV("")

\* a or b
Or(a, b) == IF Truthy(a) THEN a ELSE b

\* k in d, d[k] and d.get(k) of a dict d.
HasKey(d, key) == \E i \in 1..Len(d.items) : d.items[i].k = key
Index(d, key) == d.items[CHOOSE i \in 1..Len(d.items) : d.items[i].k = key].v
Get(d, key) == IF HasKey(d, key) THEN Index(d, key) ELSE None

\* sub in text, for two strings.
Contains(text, sub) ==
    \E i \in 1..(Len(text) - Len(sub) + 1) : SubSeq(text, i, i + Len(sub) - 1) = sub

\* The result of an evaluation that may raise.
Ret(x) == [raised |-> FALSE, val |-> x]
Raise == [raised |-> TRUE, val |-> None]

----------------------------------------------------------------------------
(* Text conversions: str.lower(), str(x), float(x) *)

UpperAlpha == "ABCDEFGHIJKLMNOPQRSTUVWXYZ"
LowerAlpha == "abcdefghijklmnopqrstuvwxyz"
Digits == "0123456789"

CharAt(text, i) == SubSeq(text, i, i)
Rest(text) == SubSeq(text, 2, Len(text))
IsDigit(c) == \E i \in 1..Len(Digits) : CharAt(Digits, i) = c
DigitVal(c) == (CHOOSE i \in 1..Len(Digits) : CharAt(Digits, i) = c) - 1
DigitStr(d) == CharAt(Digits, d + 1)

LowerChar(c) ==
    IF \E i \in 1..Len(UpperAlpha) : CharAt(UpperAlpha, i) = c
    THEN CharAt(LowerAlpha, CHOOSE i \in 1..Len(UpperAlpha) : CharAt(UpperAlpha, i) = c)
    ELSE c

\* text.lower(), built from position i on.
RECURSIVE LowerFrom(_, _)
LowerFrom(text, i) ==
    IF i > Len(text) THEN "" ELSE LowerChar(CharAt(text, i)) \o LowerFrom(text, i + 1)
Lower(text) == LowerFrom(text, 1)

\* str(i) of an int i.
RECURSIVE IntStr(_)
IntStr(i) ==
    IF i < 0 THEN "-" \o IntStr(-i)
    ELSE IF i < 10 THEN DigitStr(i)
    ELSE IntStr(i \div 10) \o DigitStr(i % 10)

\* str(f) of a float of the given tenths: 35 is "3.5", 0 is "0.0".
FloatStr(tenths) ==
    LET a == IF tenths < 0 THEN -tenths ELSE tenths
    IN (IF tenths < 0 THEN "-" ELSE "") \o IntStr(a \div 10) \o "." \o DigitStr(a % 10)

\* str(x); repr(x) is str(x) except for a str, which it quotes. Containers
\* print their elements' repr, separated by ", ".
RECURSIVE PyStr(_), PyRepr(_), ReprItems(_, _)
ReprItems(entries, withKeys) ==
    IF entries = <<>> THEN ""
    ELSE (IF withKeys THEN "'" \o Head(entries).k \o "': " ELSE "")
         \o PyRepr(Head(entries).v)
         \o (IF Len(entries) > 1 THEN ", " ELSE "")
         \o ReprItems(Tail(entries), withKeys)
PyRepr(x) == IF x.t = "str" THEN "'" \o x.s \o "'" ELSE PyStr(x)
PyStr(x) ==
    CASE x.t = "null" -> "None"
      [] x.t = "bool" -> IF x.n = 1 THEN "True" ELSE "False"
      [] x.t = "int" -> IntStr(x.n)
      [] x.t = "float" -> FloatStr(x.n)
      [] x.t = "str" -> x.s
      [] x.t = "list" -> "[" \o ReprItems(x.items, FALSE) \o "]"
      [] OTHER -> "{" \o ReprItems(x.items, TRUE) \o "}"

\* text.strip() of blanks.
RECURSIVE LStrip(_), RStrip(_)
LStrip(text) == IF text # "" /\ CharAt(text, 1) = " " THEN LStrip(Rest(text)) ELSE text
RStrip(text) ==
    IF text # "" /\ CharAt(text, Len(text)) = " "
    THEN RStrip(SubSeq(text, 1, Len(text) - 1)) ELSE text

AllDigits(text) == \A i \in 1..Len(text) : IsDigit(CharAt(text, i))

\* The number a text of digits denotes, read from position i on.
RECURSIVE DigitsVal(_, _, _)
DigitsVal(text, i, acc) ==
    IF i > Len(text) THEN acc
    ELSE DigitsVal(text, i + 1, 10 * acc + DigitVal(CharAt(text, i)))

\* The position of the first "." of body, or one past its end.
RECURSIVE DotAt(_, _)
DotAt(body, i) ==
    IF i > Len(body) \/ CharAt(body, i) = "." THEN i ELSE DotAt(body, i + 1)

\* The value of the literal with integer part ip and fraction fp, negated
\* when neg; a ValueError unless both are digits and not both empty.
Literal(neg, ip, fp) ==
    IF AllDigits(ip) /\ AllDigits(fp) /\ ip \o fp # ""
    THEN Ret(FloatV((IF neg THEN -1 ELSE 1)
                    * (10 * DigitsVal(ip, 1, 0)
                       + (IF fp = "" THEN 0 ELSE DigitVal(CharAt(fp, 1))))))
    ELSE Raise

Unsigned(neg, body) ==
    Literal(neg, SubSeq(body, 1, DotAt(body, 1) - 1),
            SubSeq(body, DotAt(body, 1) + 1, Len(body)))

Signed(t0) ==
    IF t0 # "" /\ CharAt(t0, 1) \in {"+", "-"}
    THEN Unsigned(CharAt(t0, 1) = "-", Rest(t0))
    ELSE Unsigned(FALSE, t0)

\* float(text) of a str: blanks stripped, an optional sign, then a decimal
\* literal digits[.digits]; anything else is a ValueError. The model's floats
\* have a resolution of one tenth: the fraction is cut after its first digit.
\* (Exponents, "inf" and "nan" are outside the texts the model draws.)
ParseFloat(text) == Signed(RStrip(LStrip(text)))

\* float(x): a number converts, a str is parsed (ValueError), None and
\* containers are a TypeError.
ToFloat(x) ==
    CASE x.t = "float" -> Ret(x)
      [] x.t \in {"int", "bool"} -> Ret(FloatV(10 * x.n))
      [] x.t = "str" -> ParseFloat(x.s)
      [] OTHER -> Raise


----------------------------------------------------------------------------
(* _get_first_available *)

\* k in obj: a key of a dict, a substring of a str, an element of a list;
\* a TypeError for None and numbers.
InTest(obj, key) ==
    CASE obj.t = "dict" -> Ret(BoolV(HasKey(obj, key)))
      [] obj.t = "str" -> Ret(BoolV(Contains(obj.s, key)))
      [] obj.t = "list" -> Ret(BoolV(\E i \in 1..Len(obj.items) : obj.items[i].v = StrV(key)))
      [] OTHER -> Raise

\* obj[k] with a str k: defined on a dict that has k; a TypeError on a str
\* or a list.
Subscript(obj, key) == IF IsDict(obj) /\ HasKey(obj, key) THEN Ret(Index(obj, key)) ELSE Raise

\* One round of the loop: `in` is (k in obj), `got` is obj[k], `rest` is the
\* result of the rounds that follow.
FirstAvailableRound(in, got, rest) ==
    IF in.raised THEN Raise
    ELSE IF ~Truthy(in.val) THEN rest
    ELSE IF got.raised THEN Raise
    ELSE IF ~IsNoneOrEmpty(got.val) THEN Ret(got.val)
    ELSE rest

RECURSIVE get_first_available(_, _)
get_first_available(obj, keys) ==
    IF keys = <<>> THEN Ret(None)
    ELSE FirstAvailableRound(InTest(obj, Head(keys)), Subscript(obj, Head(keys)),
                             get_first_available(obj, Tail(keys)))

----------------------------------------------------------------------------
(* Locating the record list *)

\* _get_station_list (the same nested helper in both parsers).
StationOf(ds) == IF IsDict(ds) /\ IsList(Get(ds, "Station")) THEN Get(ds, "Station") ELSE None
get_station_list(d) ==
    IF IsDict(d) /\ HasKey(d, "cwaopendata") /\ IsDict(Index(d, "cwaopendata"))
    THEN StationOf(Get(Index(d, "cwaopendata"), "dataset"))
    ELSE None

\* data["records"] as a record list: records.location, or records itself
\* when it is a list; `cur` is the value of `locations` before.
RecordsList(rec, cur) ==
    IF IsDict(rec) /\ HasKey(rec, "location") THEN Index(rec, "location")
    ELSE IF IsList(rec) THEN rec
    ELSE cur
FromRecords(data, cur) ==
    IF HasKey(data, "records") THEN RecordsList(Index(data, "records"), cur) ELSE cur

\* [f.get("properties", {}) for f in features]: an AttributeError when a
\* feature is not a dict.
PropertiesOf(f) == IF HasKey(f, "properties") THEN Index(f, "properties") ELSE DictV(<<>>)
Properties(features) ==
    IF \E i \in 1..Len(features.items) : ~IsDict(features.items[i].v) THEN Raise
    ELSE Ret(ListV([i \in 1..Len(features.items) |-> PropertiesOf(features.items[i].v)]))

\* The top-level location / locations / features lists of a dict.
FromTopLevel(data) ==
    IF HasKey(data, "location") /\ IsList(Index(data, "location"))
    THEN Ret(Index(data, "location"))
    ELSE IF HasKey(data, "locations") /\ IsList(Index(data, "locations"))
    THEN Ret(Index(data, "locations"))
    ELSE IF HasKey(data, "features") /\ IsList(Index(data, "features"))
    THEN Properties(Index(data, "features"))
    ELSE Ret(None)

\* `for loc in x`: the elements of a list, the keys of a dict, the
\* characters of a str; a TypeError for None and numbers.
Iterate(x) ==
    CASE x.t = "list" -> Ret(Elems(x))
      [] x.t = "dict" -> Ret([i \in 1..Len(x.items) |-> StrV(x.items[i].k)])
      [] x.t = "str" -> Ret([i \in 1..Len(x.s) |-> StrV(CharAt(x.s, i))])
      [] OTHER -> Raise

\* The end of locating in parse_locations: `found` is the value of
\* `locations` (or an exception); when it is falsy a dict is one record and
\* anything else gives no rows.
ObsLoopOver(data, found) ==
    IF found.raised THEN Raise
    ELSE IF ~Truthy(found.val) THEN (IF IsDict(data) THEN Ret(<<data>>) ELSE Ret(<<>>))
    ELSE Iterate(found.val)

\* `locations` after the records branch, given its value l1 there.
OrTopLevel(data, l1) == IF l1 = None THEN FromTopLevel(data) ELSE Ret(l1)

\* `locations` in parse_locations: a truthy Station list wins; otherwise
\* records, then the top-level lists, or a bare list.
ObsFind(data, stations) ==
    IF Truthy(stations) THEN Ret(stations)
    ELSE IF IsDict(data) THEN OrTopLevel(data, FromRecords(data, None))
    ELSE IF IsList(data) THEN Ret(data)
    ELSE Ret(None)

\* parse_locations up to the head of its loop: the sequence the loop runs
\* over.
ObsLocate(data) == ObsLoopOver(data, ObsFind(data, get_station_list(data)))

\* The end of locating in parse_precipitation: nothing found gives no rows.
PrecLoopOver(found) ==
    IF found.raised THEN Raise
    ELSE IF ~Truthy(found.val) THEN Ret(<<>>)
    ELSE Iterate(found.val)

\* `locations` in parse_precipitation: the Station list is taken first when
\* truthy, but the records / top-level branch is not an else-branch, so
\* records overrides it.
PrecFind(data, stations) ==
    IF IsDict(data)
    THEN OrTopLevel(data, FromRecords(data, IF Truthy(stations) THEN stations ELSE None))
    ELSE IF IsList(data) THEN Ret(data)
    ELSE Ret(IF Truthy(stations) THEN stations ELSE None)

\* parse_precipitation up to the head of its loop.
PrecLocate(data) == PrecLoopOver(PrecFind(data, get_station_list(data)))

----------------------------------------------------------------------------
(* Fields of one station record *)

\* datetime.utcnow().isoformat(): some non-empty timestamp text.
UtcNowIso == "2024-05-01T00:00:00"

NameKeys == <<"locationName", "location", "name", "area", "county", "city">>

\* NameOr without the "Unknown" default.
NameOr_NoDefault(loc, sn) ==
    IF Truthy(sn) THEN sn ELSE get_first_available(loc, NameKeys).val

\* location_name given `sn`, its value after the StationName test: sn when
\* truthy, else the first available name key, else "Unknown".
NameOr(loc, sn) ==
    IF Truthy(sn) THEN sn ELSE Or(get_first_available(loc, NameKeys).val, StrV("Unknown"))

\* location_name in parse_locations.
ObsLocationName(loc) ==
    NameOr(loc, IF HasKey(loc, "StationName") THEN Get(loc, "StationName") ELSE None)

\* location_name in parse_precipitation.
PrecLocationName(loc) ==
    NameOr(loc, IF HasKey(loc, "StationName") THEN Get(loc, "StationName") ELSE None)

\* d[key] is a non-empty list.
NonEmptyListAt(d, key) == HasKey(d, key) /\ IsList(Index(d, key)) /\ Truthy(Index(d, key))

\* d[key][0]
FirstOf(d, key) == Index(d, key).items[1].v

\* <resolved> or cur, for the result r of a resolver call.
ResolvedOr(r, cur) == IF r.raised THEN Raise ELSE Ret(Or(r.val, cur))

\* date from loc["time"][0], when loc["time"] is a non-empty list.
TimeListDate(loc) ==
    IF NonEmptyListAt(loc, "time")
    THEN ResolvedOr(get_first_available(FirstOf(loc, "time"),
                                        <<"startTime", "dataTime", "time">>), None)
    ELSE Ret(None)

\* date from loc["ObsTime"]["DateTime"] when ObsTime is a dict, else cur.
ObsTimeDate(loc, cur) ==
    IF HasKey(loc, "ObsTime") /\ IsDict(Index(loc, "ObsTime"))
    THEN Or(Get(Index(loc, "ObsTime"), "DateTime"), cur)
    ELSE cur

\* One round of the scan below: d is the date after this entry, `rest` the
\* result of the rounds that follow; a truthy date breaks the loop.
BreakOrGoOn(d, rest) ==
    IF d.raised THEN Raise ELSE IF Truthy(d.val) THEN d ELSE rest

\* The scan of weatherElement entries for the first time[0] that gives a
\* startTime / dataTime.
RECURSIVE ElementDateScan(_)
ElementDateScan(elements) ==
    IF elements = <<>> THEN Ret(None)
    ELSE IF IsDict(Head(elements)) /\ NonEmptyListAt(Head(elements), "time")
    THEN BreakOrGoOn(ResolvedOr(get_first_available(FirstOf(Head(elements), "time"),
                                                    <<"startTime", "dataTime">>), None),
                     ElementDateScan(Tail(elements)))
    ELSE ElementDateScan(Tail(elements))

\* The scan runs when no date was found before it (cur is falsy).
WeatherElementDate(loc, cur) ==
    IF ~Truthy(cur) /\ HasKey(loc, "weatherElement") /\ IsList(Index(loc, "weatherElement"))
    THEN ResolvedOr(ElementDateScan(Elems(Index(loc, "weatherElement"))), cur)
    ELSE Ret(cur)

\* date_val or <direct keys> or utcnow().isoformat()
DirectDate(loc, cur) ==
    Or(cur, Or(get_first_available(loc, <<"date", "forecastDate", "dataTime">>).val,
               StrV(UtcNowIso)))

\* The last two date sources, after the result d of the ones before.
ScanThenDirect(loc, d) ==
    IF d.raised THEN Raise ELSE WeatherElementDate(loc, d.val)
DateOrNow(loc, d) ==
    IF d.raised THEN Raise ELSE Ret(DirectDate(loc, d.val))

\* ObsTime is read when the time list gave no date.
ThenObsTime(loc, d) ==
    IF d.raised THEN Raise
    ELSE IF ~Truthy(d.val) THEN Ret(ObsTimeDate(loc, d.val)) ELSE d

\* date_val in parse_locations: the time list, then ObsTime, then the
\* weatherElement scan, then the direct keys, then now.
ObsDate(loc) ==
    DateOrNow(loc, ScanThenDirect(loc, ThenObsTime(loc, TimeListDate(loc))))

\* The time list is read when ObsTime gave no date.
ThenTimeList(loc, d) == IF ~Truthy(d) THEN TimeListDate(loc) ELSE Ret(d)

\* date_val in parse_precipitation: ObsTime first, then the time list.
PrecDate(loc) ==
    DateOrNow(loc, ScanThenDirect(loc, ThenTimeList(loc, ObsTimeDate(loc, None))))

----------------------------------------------------------------------------
(* The weatherElement scan of parse_locations *)

\* element.get("elementName") or .get("element") or .get("parameterName")
\* or .get("name")
ElementName(element) ==
    Or(Get(element, "elementName"),
       Or(Get(element, "element"), Or(Get(element, "parameterName"), Get(element, "name"))))

\* param of time[0]: parameter.parameterName or parameter.parameterValue
\* when parameter is a dict, else elementValue.value when elementValue is a
\* dict, else None.
NestedParam(t0) ==
    IF HasKey(t0, "parameter") /\ IsDict(Index(t0, "parameter"))
    THEN Or(Get(Index(t0, "parameter"), "parameterName"),
            Get(Index(t0, "parameter"), "parameterValue"))
    ELSE IF HasKey(t0, "elementValue") /\ IsDict(Index(t0, "elementValue"))
    THEN Get(Index(t0, "elementValue"), "value")
    ELSE None

\* val after the time[0] block: val is first set to the startTime / dataTime
\* of time[0] and replaced by param only when param is not None.
StampOrParam(stamp, param) == IF param # None THEN param ELSE stamp

NestedValue(element) ==
    IF NonEmptyListAt(element, "time") /\ IsDict(FirstOf(element, "time"))
    THEN StampOrParam(get_first_available(FirstOf(element, "time"),
                                          <<"startTime", "dataTime">>).val,
                      NestedParam(FirstOf(element, "time")))
    ELSE None

ValueKeys == <<"parameter", "value", "elementValue", "forecast", "parameterName">>

\* p.get("parameterName"), an AttributeError (caught: None) when p is not a
\* dict.
ParameterNameOf(p) == IF IsDict(p) THEN Get(p, "parameterName") ELSE None

\* element["time"][0].get("parameter", {}).get("parameterName") inside its
\* own try: None when any step fails.
DeepParameterName(t0) ==
    IF IsDict(t0)
    THEN ParameterNameOf(IF HasKey(t0, "parameter") THEN Index(t0, "parameter")
                         ELSE DictV(<<>>))
    ELSE None

\* val when still None after the element's own keys.
OrDeep(element, v2) ==
    IF v2 = None /\ IsList(Get(element, "time")) /\ Truthy(Get(element, "time"))
    THEN DeepParameterName(FirstOf(element, "time"))
    ELSE v2

\* val when None after the time[0] block: the element's own keys.
OrOwnKeys(element, v1) ==
    IF v1 = None THEN Or(get_first_available(element, ValueKeys).val, None) ELSE v1

\* val of one element.
ElementValue(element) == OrDeep(element, OrOwnKeys(element, NestedValue(element)))

AnyIn(text, subs) == \E i \in 1..Len(subs) : Contains(text, subs[i])

MinWords == <<"mint", "min", "tmin">>
MaxWords == <<"maxt", "max", "tmax">>
DescWords == <<"wx", "weather", "description", "wxvalue", "wx_desc">>

\* Category with the max test before the min test.
Category_MaxFirst(lname) ==
    IF AnyIn(lname, MaxWords) THEN "max"
    ELSE IF AnyIn(lname, MinWords) THEN "min"
    ELSE IF AnyIn(lname, DescWords) THEN "desc"
    ELSE "none"

\* The branch of the if / elif chain taken for a lowercased name.
Category(lname) ==
    IF AnyIn(lname, MinWords) THEN "min"
    ELSE IF AnyIn(lname, MaxWords) THEN "max"
    ELSE IF AnyIn(lname, DescWords) THEN "desc"
    ELSE "none"

\* (name or "").lower() if name else "": an AttributeError when name is
\* truthy and not a str.
LowerName(name) ==
    IF ~Truthy(name) THEN Ret("")
    ELSE IF name.t = "str" THEN Ret(Lower(name.s))
    ELSE Raise

Fields(mn, mx, de) == [min_temp |-> mn, max_temp |-> mx, description |-> de]

\* Assign that keeps a field once it is set: the first match wins.
Assign_FirstWins(acc, cat, val) ==
    CASE cat = "min" /\ acc.min_temp = None -> [acc EXCEPT !.min_temp = val]
      [] cat = "max" /\ acc.max_temp = None -> [acc EXCEPT !.max_temp = val]
      [] cat = "desc" /\ acc.description = None -> [acc EXCEPT !.description = val]
      [] OTHER -> acc

\* The assignment of the branch taken.
Assign(acc, cat, val) ==
    CASE cat = "min" -> [acc EXCEPT !.min_temp = val]
      [] cat = "max" -> [acc EXCEPT !.max_temp = val]
      [] cat = "desc" -> [acc EXCEPT !.description = val]
      [] OTHER -> acc

\* The end of one iteration: lname is the lowercased name (or its
\* exception), val the element's value.
Classify(acc, lname, val) ==
    IF lname.raised THEN Raise ELSE Ret(Assign(acc, Category(lname.val), val))

\* One iteration of the element loop on the fields found so far.
ScanElement(element, acc) ==
    IF ~IsDict(element) THEN Ret(acc)
    ELSE Classify(acc, LowerName(ElementName(element)), ElementValue(element))

\* The iterations that follow one with result r.
RECURSIVE ScanElements(_, _)
ScanRest(elements, r) == IF r.raised THEN Raise ELSE ScanElements(elements, r.val)
ScanElements(elements, acc) ==
    IF elements = <<>> THEN Ret(acc)
    ELSE ScanRest(Tail(elements), ScanElement(Head(elements), acc))

\* min_temp, max_temp and description after the element loop.
ScanRecord(loc) ==
    IF HasKey(loc, "weatherElement") /\ IsList(Index(loc, "weatherElement"))
    THEN ScanElements(Elems(Index(loc, "weatherElement")), Fields(None, None, None))
    ELSE Ret(Fields(None, None, None))

\* description after the scan: when falsy, the record's own keys.
DescriptionOr(loc, description) ==
    IF ~Truthy(description)
    THEN Or(get_first_available(loc, <<"description", "weather", "wx", "parameterName">>).val,
            description)
    ELSE description

\* None if x in (None, "") else str(x)
TextOrNone(x) == IF IsNoneOrEmpty(x) THEN None ELSE StrV(PyStr(x))

\* rows.append({...}) for a record with the date and the scanned fields
\* given, unless one of them raised.
ObsRow(loc, date, scan) ==
    IF date.raised \/ scan.raised THEN Raise
    ELSE Ret(<< [location |-> StrV(PyStr(ObsLocationName(loc))),
                 date |-> StrV(PyStr(date.val)),
                 min_temp |-> TextOrNone(scan.val.min_temp),
                 max_temp |-> TextOrNone(scan.val.max_temp),
                 description |-> TextOrNone(DescriptionOr(loc, scan.val.description))] >>)

\* The body of the loop of parse_locations for one entry: the rows it
\* appends (none for a non-dict entry), or an exception, which the loop
\* catches.
ObsRecord(loc) ==
    IF ~IsDict(loc) THEN Ret(<<>>) ELSE ObsRow(loc, ObsDate(loc), ScanRecord(loc))

----------------------------------------------------------------------------
(* The rainfall map of parse_precipitation *)

PrecipKeys == <<"Precipitation", "Precip", "Value", "precipitation", "value">>

\* loc.get("RainfallElement") or loc.get("Rainfall") or loc.get("rainfall")
RainfallMap(loc) ==
    Or(Get(loc, "RainfallElement"), Or(Get(loc, "Rainfall"), Get(loc, "rainfall")))

\* val for one entry of the map.
PrecipValue(sub) ==
    IF IsDict(sub) THEN Or(get_first_available(sub, PrecipKeys).val, None) ELSE sub

\* The try around float(val): None on any exception.
FloatOrNone(f) == IF f.raised THEN None ELSE f.val

\* float(val) if val not in (None, "") else None
PrecipFloat(val) == IF IsNoneOrEmpty(val) THEN None ELSE FloatOrNone(ToFloat(val))

\* PrecRows that stops after the first entry of the map.
PrecRows_FirstOnly(loc, date, rf) ==
    IF date.raised THEN Raise
    ELSE IF ~IsDict(rf) THEN Ret(<<>>)
    ELSE Ret([i \in 1..(IF Len(rf.items) > 0 THEN 1 ELSE 0) |->
                [location |-> StrV(PyStr(PrecLocationName(loc))),
                 date |-> StrV(PyStr(date.val)),
                 period |-> StrV(PyStr(StrV(rf.items[i].k))),
                 precipitation |-> PrecipFloat(PrecipValue(rf.items[i].v))]])

\* out.append({...}) for each entry of the map rf, for a record with the
\* date given, unless it raised.
PrecRows(loc, date, rf) ==
    IF date.raised THEN Raise
    ELSE IF ~IsDict(rf) THEN Ret(<<>>)
    ELSE Ret([i \in 1..Len(rf.items) |->
                [location |-> StrV(PyStr(PrecLocationName(loc))),
                 date |-> StrV(PyStr(date.val)),
                 period |-> StrV(PyStr(StrV(rf.items[i].k))),
                 precipitation |-> PrecipFloat(PrecipValue(rf.items[i].v))]])

\* The body of the loop of parse_precipitation for one entry.
PrecRecord(loc) ==
    IF ~IsDict(loc) THEN Ret(<<>>) ELSE PrecRows(loc, PrecDate(loc), RainfallMap(loc))

----------------------------------------------------------------------------
(* Storage *)

\* float(r[key]) if r.get(key) not in (None, "") else None
TempValue(x) == IF IsNoneOrEmpty(x) THEN Ret(None) ELSE ToFloat(x)

\* cur.execute(INSERT ...) with the coerced values, unless the coercion
\* raised: the except clause skips the row.
StoreRow(r, minv, maxv) ==
    IF minv.raised \/ maxv.raised THEN <<>>
    ELSE << [location |-> r.location, date |-> r.date, min_temp |-> minv.val,
             max_temp |-> maxv.val, description |-> r.description] >>

\* The body of the loop of insert_rows for one row: the rows added to the
\* weather table.
InsertRow(r) == StoreRow(r, TempValue(r.min_temp), TempValue(r.max_temp))

StorePrecipRow(r, pv) ==
    IF pv.raised THEN <<>>
    ELSE << [location |-> r.location, date |-> r.date, period |-> r.period,
             precipitation |-> pv.val] >>

\* The body of the loop of insert_precip_rows for one row.
InsertPrecipRow(r) == StorePrecipRow(r, TempValue(r.precipitation))

RECURSIVE InsertAll(_), InsertAllPrecip(_)
InsertAll(rs) == IF rs = <<>> THEN <<>> ELSE InsertRow(Head(rs)) \o InsertAll(Tail(rs))
InsertAllPrecip(rs) ==
    IF rs = <<>> THEN <<>> ELSE InsertPrecipRow(Head(rs)) \o InsertAllPrecip(Tail(rs))

----------------------------------------------------------------------------
(* The documents the model draws: every combination of the shapes below.   *)

MaxRecords == 2      \* entries of a bare record list
MaxElements == 2     \* entries of a weatherElement list
MaxPeriods == 2      \* entries of a rainfall map

SeqsUpTo(S, n) == UNION {[1..k -> S] : k \in 0..n}
Opt(key, S) == {<<>>} \cup {<<Entry(key, v)>> : v \in S}
One(key, S) == {<<Entry(key, v)>> : v \in S}
D1(key, v) == DictV(<<Entry(key, v)>>)

\* A well-formed station record named tag, with one rainfall period.
Rec(tag) == DictV(<<Entry("StationName", StrV(tag)),
                    Entry("RainfallElement", D1("Now", StrV("1.0")))>>)

Wrapper(station) == D1("dataset", D1("Station", station))

\* Documents that differ in where a record list may be found.
ShapeDocs ==
    {DictV(a \o b \o c \o d \o e) :
        a \in Opt("cwaopendata", {StrV("x"), Wrapper(ListV(<<>>)),
                                  Wrapper(ListV(<<Rec("S")>>)), Wrapper(StrV("x"))}),
        b \in Opt("records", {D1("location", ListV(<<Rec("R")>>)), D1("location", IntV(5)),
                              D1("location", None), D1("other", IntV(1)),
                              ListV(<<Rec("RL")>>), StrV("text")}),
        c \in Opt("location", {ListV(<<Rec("L")>>), StrV("x")}),
        d \in Opt("locations", {ListV(<<Rec("LL")>>)}),
        e \in Opt("features", {ListV(<<D1("properties", Rec("F"))>>),
                               ListV(<<DictV(<<>>)>>), ListV(<<IntV(1)>>)})}

\* Documents that are not a JSON object with keys: scalars, and one station
\* record as the whole document.
BareDocs == {None, IntV(5), BoolV(TRUE), StrV("text"), Rec("T")}

\* Entries of a bare record list: two good records, one whose time list
\* holds a number, one that is not an object.
RecordPool == {Rec("A"), Rec("B"), StrV("junk"),
               DictV(<<Entry("StationName", StrV("C")), Entry("time", ListV(<<IntV(5)>>)),
                       Entry("RainfallElement", D1("Now", StrV("2.0")))>>)}

ListDocs == {ListV(l) : l \in SeqsUpTo(RecordPool, MaxRecords)}

\* One record, varying the sources of its name and date.
NameDateDocs ==
    {ListV(<<DictV(a \o b \o c \o d \o e \o f
                   \o <<Entry("RainfallElement", D1("Now", StrV("1.0")))>>)>>) :
        a \in Opt("StationName", {StrV("Taipei"), StrV(""), IntV(5)}),
        b \in Opt("county", {StrV("Yilan"), IntV(0)}),
        c \in Opt("time", {ListV(<<D1("startTime", StrV("T1"))>>), ListV(<<IntV(5)>>),
                           ListV(<<StrV("xstartTimex")>>)}),
        d \in Opt("ObsTime", {D1("DateTime", StrV("T2")), D1("DateTime", StrV(""))}),
        e \in Opt("weatherElement", {ListV(<<D1("time", ListV(<<D1("dataTime", StrV("T3"))>>))>>),
                                     ListV(<<D1("time", ListV(<<None>>))>>)}),
        f \in Opt("date", {StrV("T4")})}

El(name, val) == DictV(<<Entry("elementName", StrV(name)), Entry("value", val)>>)
ElTime(name, t0) == DictV(<<Entry("elementName", StrV(name)), Entry("time", ListV(<<t0>>))>>)

ElementPool ==
    { El("MinTemperature", StrV("18.2")),
      El("Wx", StrV("Cloudy")),
      El("MaxT", StrV("N/A")),
      El("Temp", StrV("25")),
      El("MinMax", IntV(7)),
      D1("elementName", StrV("Wx")),
      DictV(<<Entry("elementName", IntV(5)), Entry("value", StrV("x"))>>),
      StrV("junk"),
      ElTime("MaxT", DictV(<<Entry("startTime", StrV("T1")),
                             Entry("parameter", D1("parameterName", StrV("30")))>>)),
      ElTime("Wx", D1("elementValue", D1("value", StrV("Fog")))),
      ElTime("TMIN", D1("parameter", D1("parameterName", IntV(0)))),
      DictV(<<Entry("elementName", StrV("Wx")),
              Entry("time", ListV(<<D1("startTime", StrV("T1"))>>)),
              Entry("value", StrV("Rain"))>>) }

\* One record, varying its weatherElement list and its own description.
ElementDocs ==
    {ListV(<<DictV(<<Entry("StationName", StrV("E")), Entry("date", StrV("T4"))>> \o a \o b)>>) :
        a \in One("weatherElement", {ListV(es) : es \in SeqsUpTo(ElementPool, MaxElements)}),
        b \in Opt("description", {StrV("Sunny")})}

PeriodNames == <<"Past24hr", "Now", "Past1hr", "Past3hr">>

SubPool ==
    { D1("Precipitation", StrV("3.5")), D1("Precipitation", StrV("0.0")),
      D1("Precipitation", IntV(0)), D1("Precipitation", StrV("N/A")),
      DictV(<<Entry("Precip", StrV("")), Entry("Value", FloatV(12))>>),
      StrV("2.0"), IntV(0), None }

RainMaps ==
    {DictV([i \in 1..Len(f) |-> Entry(PeriodNames[i], f[i])]) :
        f \in SeqsUpTo(SubPool, MaxPeriods)}

\* One record, varying its rainfall map and the key that holds it.
RainDocs ==
    {ListV(<<DictV(<<Entry("StationName", StrV("P")), Entry("date", StrV("T4"))>> \o h)>>) :
        h \in UNION {
            { <<Entry("RainfallElement", m)>>,
              <<Entry("Rainfall", m)>>,
              <<Entry("RainfallElement", DictV(<<>>)), Entry("rainfall", m)>>,
              <<Entry("time", ListV(<<IntV(5)>>)), Entry("RainfallElement", m)>> }
            : m \in RainMaps \cup {StrV("none")} }}

Docs == ShapeDocs \cup BareDocs \cup ListDocs \cup NameDateDocs \cup ElementDocs \cup RainDocs

----------------------------------------------------------------------------
(* State: one decoded document and the calls made on it.                   *)
(* The interpreter is single-threaded: a call runs to its return before    *)
(* another one starts.                                                     *)

VARIABLES
    data,            \* the decoded JSON document
    obsSt,           \* parse_locations: "new", "running", "returned", "raised"
    obsLocations,    \* the sequence its loop runs over
    obsIdx,          \* the position of its loop
    rows,            \* its rows
    precSt,          \* parse_precipitation: "new", "running", "returned", "raised"
    precLocations,   \* the sequence its loop runs over
    precIdx,         \* the position of its loop
    out,             \* its rows
    weatherSt,       \* insert_rows: "new", "done"
    weather,         \* the weather table
    inserted,        \* the count insert_rows returns
    precipSt,        \* insert_precip_rows: "new", "done"
    precipitation,   \* the precipitation table
    pc,              \* main(): the statement it is at; "direct" when the
                     \* functions are called without main()
    fetchSt,         \* fetch_json: "new", "ok", "failed"
    rawSaved,        \* raw.json was written
    conn,            \* the database connection: "none", "open", "closed"
    exitStatus       \* the exit status of the process, -1 while it runs

obsVars == <<obsSt, obsLocations, obsIdx, rows>>
precVars == <<precSt, precLocations, precIdx, out>>
weatherVars == <<weatherSt, weather, inserted>>
precipVars == <<precipSt, precipitation>>
mainVars == <<pc, fetchSt, rawSaved, conn, exitStatus>>
vars == <<data, obsVars, precVars, weatherVars, precipVars, mainVars>>

NoCallRunning == obsSt # "running" /\ precSt # "running"

\* Collect in which a record that raises discards what the loop has
\* gathered so far.
Collect_AbortBatch(acc, r) == IF r.raised THEN <<>> ELSE acc \o r.val

\* try: ... rows.append(...) / except Exception: continue, around the body
\* of either loop: a record that raised adds nothing, any other one adds
\* what its body appended.
Collect(acc, r) == IF r.raised THEN acc ELSE acc \o r.val

\* parse_locations(data), from its entry to the head of its loop.
ObsLocateStep ==
    /\ obsSt = "new" /\ NoCallRunning
    /\ \E l \in {ObsLocate(data)} :
          IF l.raised
          THEN obsSt' = "raised" /\ UNCHANGED <<obsLocations, obsIdx>>
          ELSE /\ obsLocations' = l.val
               /\ obsIdx' = 1
               /\ obsSt' = IF l.val = <<>> THEN "returned" ELSE "running"
    /\ rows' = <<>>
    /\ UNCHANGED <<data, precVars, weatherVars, precipVars, mainVars>>

\* One iteration of the loop of parse_locations; after the last one the
\* function returns rows.
ObsLoopStep ==
    /\ obsSt = "running"
    /\ \E r \in {ObsRecord(obsLocations[obsIdx])} :
           rows' = Collect(rows, r)
    /\ obsIdx' = obsIdx + 1
    /\ obsSt' = IF obsIdx = Len(obsLocations) THEN "returned" ELSE "running"
    /\ UNCHANGED <<data, obsLocations, precVars, weatherVars, precipVars, mainVars>>

\* insert_rows(conn, rows) on the rows parse_locations returned.
InsertRows ==
    /\ weatherSt = "new" /\ obsSt = "returned" /\ NoCallRunning
    /\ \E stored \in {InsertAll(rows)} :
          /\ weather' = weather \o stored
          /\ inserted' = Len(stored)
    /\ weatherSt' = "done"
    /\ UNCHANGED <<data, obsVars, precVars, precipVars, mainVars>>

\* parse_precipitation(data), from its entry to the head of its loop.
PrecLocateStep ==
    /\ precSt = "new" /\ NoCallRunning
    /\ \E l \in {PrecLocate(data)} :
          IF l.raised
          THEN precSt' = "raised" /\ UNCHANGED <<precLocations, precIdx>>
          ELSE /\ precLocations' = l.val
               /\ precIdx' = 1
               /\ precSt' = IF l.val = <<>> THEN "returned" ELSE "running"
    /\ out' = <<>>
    /\ UNCHANGED <<data, obsVars, weatherVars, precipVars, mainVars>>

\* One iteration of the loop of parse_precipitation.
PrecLoopStep ==
    /\ precSt = "running"
    /\ \E r \in {PrecRecord(precLocations[precIdx])} :
           out' = Collect(out, r)
    /\ precIdx' = precIdx + 1
    /\ precSt' = IF precIdx = Len(precLocations) THEN "returned" ELSE "running"
    /\ UNCHANGED <<data, precLocations, obsVars, weatherVars, precipVars, mainVars>>

\* insert_precip_rows(conn, precip_rows) on the rows parse_precipitation
\* returned.
InsertPrecipRows ==
    /\ precipSt = "new" /\ precSt = "returned" /\ NoCallRunning
    /\ precipitation' = precipitation \o InsertAllPrecip(out)
    /\ precipSt' = "done"
    /\ UNCHANGED <<data, obsVars, precVars, weatherVars, mainVars>>

Init ==
    /\ data \in Docs
    /\ obsSt = "new" /\ obsLocations = <<>> /\ obsIdx = 1 /\ rows = <<>>
    /\ precSt = "new" /\ precLocations = <<>> /\ precIdx = 1 /\ out = <<>>
    /\ weatherSt = "new" /\ weather = <<>> /\ inserted = 0
    /\ precipSt = "new" /\ precipitation = <<>>
    /\ pc = "direct" /\ fetchSt = "ok" /\ rawSaved = FALSE /\ conn = "open" /\ exitStatus = -1

Next ==
    \/ ObsLocateStep
    \/ ObsLoopStep
    \/ InsertRows
    \/ PrecLocateStep
    \/ PrecLoopStep
    \/ InsertPrecipRows

Spec == Init /\ [][Next]_vars

----------------------------------------------------------------------------
(* main(): one run of the script.                                          *)

\* RowsCheck that goes on with no rows.
RowsCheck_NoExit(rs) == "connect"

\* if not rows: logging.error(...); sys.exit(1)
RowsCheck(rs) == IF rs = <<>> THEN "exit" ELSE "connect"

\* data = fetch_json(URL): any decoded document, or an exception of the
\* request, the status check or the decoding, on which main() exits with 1.
Fetch ==
    /\ pc = "fetch"
    /\ \/ /\ data' \in Docs
          /\ fetchSt' = "ok" /\ pc' = "save_raw"
          /\ UNCHANGED exitStatus
       \/ /\ fetchSt' = "failed" /\ pc' = "exited" /\ exitStatus' = 1
          /\ UNCHANGED data
    /\ UNCHANGED <<obsVars, precVars, weatherVars, precipVars, rawSaved, conn>>

\* Writing raw.json: a failure is logged and the run goes on.
SaveRaw ==
    /\ pc = "save_raw"
    /\ rawSaved' \in BOOLEAN
    /\ pc' = "parse_locations"
    /\ UNCHANGED <<data, obsVars, precVars, weatherVars, precipVars, fetchSt, conn, exitStatus>>

\* rows = parse_locations(data)
ParseLocations == pc = "parse_locations" /\ (ObsLocateStep \/ ObsLoopStep)

\* After the call: an exception of parse_locations is not caught and ends
\* the process with status 1; no rows exits with 1; otherwise the database
\* is opened next.
CheckRows ==
    /\ pc = "parse_locations" /\ obsSt \in {"returned", "raised"}
    /\ IF obsSt = "raised" THEN pc' = "raised" /\ exitStatus' = 1
       ELSE IF RowsCheck(rows) = "exit" THEN pc' = "exited" /\ exitStatus' = 1
       ELSE pc' = "connect" /\ UNCHANGED exitStatus
    /\ UNCHANGED <<data, obsVars, precVars, weatherVars, precipVars, fetchSt, rawSaved, conn>>

\* conn = sqlite3.connect(DB_PATH); init_db(conn): the tables exist
\* afterwards, or sqlite raises and the process ends (the connection
\* closed by the finally block when it was opened).
Connect ==
    /\ pc = "connect"
    /\ \/ conn' = "open" /\ pc' = "insert_rows" /\ UNCHANGED exitStatus
       \/ conn' \in {"none", "closed"} /\ pc' = "raised" /\ exitStatus' = 1
    /\ UNCHANGED <<data, obsVars, precVars, weatherVars, precipVars, fetchSt, rawSaved>>

\* n = insert_rows(conn, rows)
CallInsertRows == pc = "insert_rows" /\ InsertRows

\* logging.info("Inserted n rows ..."), then on to the precipitation.
LogInserted ==
    /\ pc = "insert_rows" /\ weatherSt = "done"
    /\ pc' = "parse_precipitation"
    /\ UNCHANGED <<data, obsVars, precVars, weatherVars, precipVars, fetchSt, rawSaved, conn,
                   exitStatus>>

\* precip_rows = parse_precipitation(data)
ParsePrecipitation == pc = "parse_precipitation" /\ (PrecLocateStep \/ PrecLoopStep)

\* if precip_rows: insert them; else log that there are none. An exception
\* of parse_precipitation runs the finally block and ends the process.
CheckPrecipRows ==
    /\ pc = "parse_precipitation" /\ precSt \in {"returned", "raised"}
    /\ IF precSt = "raised" THEN pc' = "raised" /\ conn' = "closed" /\ exitStatus' = 1
       ELSE /\ pc' = IF out # <<>> THEN "insert_precip_rows" ELSE "close"
            /\ UNCHANGED <<conn, exitStatus>>
    /\ UNCHANGED <<data, obsVars, precVars, weatherVars, precipVars, fetchSt, rawSaved>>

\* m = insert_precip_rows(conn, precip_rows)
CallInsertPrecipRows == pc = "insert_precip_rows" /\ InsertPrecipRows

\* logging.info("Inserted m rows ...")
LogPrecipInserted ==
    /\ pc = "insert_precip_rows" /\ precipSt = "done"
    /\ pc' = "close"
    /\ UNCHANGED <<data, obsVars, precVars, weatherVars, precipVars, fetchSt, rawSaved, conn,
                   exitStatus>>

\* finally: conn.close(), and main() returns.
Close ==
    /\ pc = "close"
    /\ conn' = "closed" /\ pc' = "exited" /\ exitStatus' = 0
    /\ UNCHANGED <<data, obsVars, precVars, weatherVars, precipVars, fetchSt, rawSaved>>

MainInit ==
    /\ data = None
    /\ obsSt = "new" /\ obsLocations = <<>> /\ obsIdx = 1 /\ rows = <<>>
    /\ precSt = "new" /\ precLocations = <<>> /\ precIdx = 1 /\ out = <<>>
    /\ weatherSt = "new" /\ weather = <<>> /\ inserted = 0
    /\ precipSt = "new" /\ precipitation = <<>>
    /\ pc = "fetch" /\ fetchSt = "new" /\ rawSaved = FALSE /\ conn = "none" /\ exitStatus = -1

MainNext ==
    \/ Fetch
    \/ SaveRaw
    \/ ParseLocations
    \/ CheckRows
    \/ Connect
    \/ CallInsertRows
    \/ LogInserted
    \/ ParsePrecipitation
    \/ CheckPrecipRows
    \/ CallInsertPrecipRows
    \/ LogPrecipInserted
    \/ Close

MainSpec == MainInit /\ [][MainNext]_vars

----------------------------------------------------------------------------
(* Properties *)

Located(st) == st \in {"running", "returned"}

\* The record an iteration of either loop is about, and what it appends.
ObsLoc == obsLocations[obsIdx]
PrecLoc == precLocations[precIdx]
ObsEmits == obsSt = "running" /\ Len(rows') = Len(rows) + 1
NewRow == rows'[Len(rows')]
NewOut == SubSeq(out', Len(out) + 1, Len(out'))

\* C1: for every document, locating the record list in parse_locations and
\* in parse_precipitation returns a list; neither call raises to its caller.
C1_NeverRaises == obsSt # "raised" /\ precSt # "raised"

\* A non-empty text that float() rejects.
NonNumericText(x) == x.t = "str" /\ x.s # "" /\ ParseFloat(x.s).raised

\* C2: after insert_rows, every row handed to it is in the weather table
\* and counted, also one whose min_temp or max_temp is a non-empty
\* non-numeric string: that field is stored as NULL and location, date and
\* description are stored unchanged.
C2_NonNumericStoredAsNull ==
    weatherSt = "done" =>
        /\ inserted = Len(rows)
        /\ Len(weather) = Len(rows)
        /\ \A i \in 1..Len(rows) :
              /\ weather[i].location = rows[i].location
              /\ weather[i].date = rows[i].date
              /\ weather[i].description = rows[i].description
              /\ NonNumericText(rows[i].min_temp) => weather[i].min_temp = None
              /\ NonNumericText(rows[i].max_temp) => weather[i].max_temp = None

\* The document has a list at cwaopendata.dataset.Station and a top-level
\* `location` list.
StationPath(d) == Get(Get(Get(d, "cwaopendata"), "dataset"), "Station")
HasStationAndLocation(d) ==
    /\ IsDict(d) /\ IsDict(Get(d, "cwaopendata")) /\ IsDict(Get(Get(d, "cwaopendata"), "dataset"))
    /\ IsList(StationPath(d))
    /\ IsList(Get(d, "location"))

\* C3: for a document with both a Station list and a top-level `location`
\* list, the list either parser runs over is the Station list.
C3_StationWins ==
    HasStationAndLocation(data) =>
        /\ Located(obsSt) => obsLocations = Elems(StationPath(data))
        /\ Located(precSt) => precLocations = Elems(StationPath(data))

\* C4: parse_locations and parse_precipitation run over the same located
\* record list, for every document.
C4_SameList == Located(obsSt) /\ Located(precSt) => obsLocations = precLocations

\* The periods of the records an iteration must append for a record with
\* the rainfall map rf: its keys in order when it is an object, else none.
PeriodsOf(rf) == IF IsDict(rf) THEN [i \in 1..Len(rf.items) |-> StrV(rf.items[i].k)] ELSE <<>>
PeriodsIn(recs) == [i \in 1..Len(recs) |-> recs[i].period]

ResolvedValue(sub) ==
    IF IsDict(sub) THEN get_first_available(sub, PrecipKeys).val ELSE sub
CoercedOrNone(v) ==
    IF IsNoneOrEmpty(v) \/ ToFloat(v).raised THEN None ELSE ToFloat(v).val

\* C6: the precipitation of each record appended for an entry (period, sub)
\* is the float of the resolved value whenever that is a number or numeric
\* text, zero included, and None only when it is missing, empty or not
\* coercible.
C6_PrecipitationIsFloatOfValue ==
    [][precSt = "running" /\ Len(out') > Len(out) =>
         \A i \in 1..Len(NewOut) :
             NewOut[i].precipitation =
                 CoercedOrNone(ResolvedValue(RainfallMap(PrecLoc).items[i].v))]_vars

NonEmptyText(x) == x.t = "str" /\ x.s # ""

\* Neither StationName nor a name key gives a non-empty value.
NoNameGiven(loc) ==
    \A key \in {"StationName", "locationName", "location", "name", "area", "county", "city"} :
        IsNoneOrEmpty(Get(loc, key))

\* No date source gives a date: the time list, ObsTime.DateTime, the time
\* lists of the weatherElement entries, the direct keys.
NoDateGiven(loc) ==
    /\ ~Truthy(TimeListDate(loc).val)
    /\ ~Truthy(ObsTimeDate(loc, None))
    /\ ~Truthy(WeatherElementDate(loc, None).val)
    /\ \A key \in {"date", "forecastDate", "dataTime"} : ~Truthy(Get(loc, key))

\* C7: every record either parser appends has a non-empty text location
\* and date, "Unknown" when no name is given and the current UTC timestamp
\* when no date is given; the period of a precipitation record is a text.
C7_LocationAndDateAreText ==
    [][/\ ObsEmits =>
            /\ NonEmptyText(NewRow.location) /\ NonEmptyText(NewRow.date)
            /\ NoNameGiven(ObsLoc) => NewRow.location = StrV("Unknown")
            /\ NoDateGiven(ObsLoc) => NewRow.date = StrV(UtcNowIso)
       /\ precSt = "running" =>
            \A i \in 1..Len(NewOut) :
                /\ NonEmptyText(NewOut[i].location) /\ NonEmptyText(NewOut[i].date)
                /\ NewOut[i].period.t = "str"
                /\ NoNameGiven(PrecLoc) => NewOut[i].location = StrV("Unknown")
                /\ NoDateGiven(PrecLoc) => NewOut[i].date = StrV(UtcNowIso)]_vars

\* Both parsers returned a record for a station record that gives no name
\* and no date.
C7_Witness ==
    /\ obsSt = "returned" /\ precSt = "returned"
    /\ Len(obsLocations) = 1 /\ IsDict(obsLocations[1]) /\ precLocations = obsLocations
    /\ NoNameGiven(obsLocations[1]) /\ NoDateGiven(obsLocations[1])
    /\ Len(rows) = 1 /\ rows[1].location = StrV("Unknown") /\ rows[1].date = StrV(UtcNowIso)
    /\ Len(out) = 1 /\ out[1].location = StrV("Unknown") /\ out[1].date = StrV(UtcNowIso)
    /\ out[1].period = StrV("Now")

\* The weatherElement entries of a record that the scan looks at.
ScannedElements(loc) ==
    IF IsList(Get(loc, "weatherElement"))
    THEN SelectSeq(Elems(Get(loc, "weatherElement")), IsDict)
    ELSE <<>>

\* The category the claims give a lowercased name: min, then max, then
\* description, by substring.
ClaimCategory(lname) ==
    IF \E w \in {"mint", "min", "tmin"} : Contains(lname, w) THEN "min"
    ELSE IF \E w \in {"maxt", "max", "tmax"} : Contains(lname, w) THEN "max"
    ELSE IF \E w \in {"wx", "weather", "description", "wxvalue", "wx_desc"} : Contains(lname, w)
    THEN "desc"
    ELSE "none"
ClaimCategoryOf(element) == ClaimCategory(LowerName(ElementName(element)).val)

FieldOf(row, cat) ==
    CASE cat = "min" -> row.min_temp
      [] cat = "max" -> row.max_temp
      [] OTHER -> row.description

\* The value C8 gives an element: the nested parameter / elementValue of
\* time[0], else the first available of the element's own keys.
ClaimValue(element) ==
    IF NonEmptyListAt(element, "time") /\ IsDict(FirstOf(element, "time"))
       /\ NestedParam(FirstOf(element, "time")) # None
    THEN NestedParam(FirstOf(element, "time"))
    ELSE get_first_available(element, ValueKeys).val

\* C8: the value classified for an element is its nested parameter or
\* elementValue, else the first available of its own keys, never a
\* timestamp of time[0]; seen on a record with one classified element that
\* has such a value.
C8_ValueIsNeverTheTimestamp ==
    [][ObsEmits /\ Len(ScannedElements(ObsLoc)) = 1
         /\ ClaimCategoryOf(ScannedElements(ObsLoc)[1]) # "none"
         /\ Truthy(ClaimValue(ScannedElements(ObsLoc)[1]))
       => FieldOf(NewRow, ClaimCategoryOf(ScannedElements(ObsLoc)[1]))
              = StrV(PyStr(ClaimValue(ScannedElements(ObsLoc)[1])))]_vars

\* The positions of the scanned elements of a category.
OfCategory(els, cat) == {i \in 1..Len(els) : ClaimCategoryOf(els[i]) = cat}
LastOf(S) == CHOOSE i \in S : \A j \in S : j <= i

\* The field a record is emitted with when the scan left val in it: the
\* description falls back to the record's own keys when val is falsy.
Emitted(loc, cat, val) ==
    IF cat = "desc" THEN TextOrNone(DescriptionOr(loc, val)) ELSE TextOrNone(val)

C10_LastMatchWins ==
    [][ObsEmits =>
         \A cat \in {"min", "max", "desc"} :
             Cardinality(OfCategory(ScannedElements(ObsLoc), cat)) > 1
                 => FieldOf(NewRow, cat) =
                       TextOrNone(ElementValue(ScannedElements(ObsLoc)[
                           LastOf(OfCategory(ScannedElements(ObsLoc), cat))]))]_vars

\* C10 amended: the same, except that a description whose last element
\* gives a falsy value falls back to the record's own description keys.
C10_LastMatchWinsThenFallback ==
    [][ObsEmits =>
         \A cat \in {"min", "max", "desc"} :
             Cardinality(OfCategory(ScannedElements(ObsLoc), cat)) > 1
                 => FieldOf(NewRow, cat) =
                       Emitted(ObsLoc, cat,
                               ElementValue(ScannedElements(ObsLoc)[
                                   LastOf(OfCategory(ScannedElements(ObsLoc), cat))]))]_vars

\* Two min elements with different values were parsed: the second one's
\* value was emitted.
C10_Witness ==
    /\ obsSt = "returned" /\ Len(obsLocations) = 1
    /\ ScannedElements(obsLocations[1]) = <<El("MinTemperature", StrV("18.2")), El("MinMax", IntV(7))>>
    /\ Len(rows) = 1 /\ rows[1].min_temp = StrV("7")

\* What one entry of a located list yields when it is processed alone: the
\* rows its loop body appends, and nothing when it is not an object or its
\* extraction raises.
ObsYield(rec) == IF ObsRecord(rec).raised THEN <<>> ELSE ObsRecord(rec).val
PrecYield(rec) == IF PrecRecord(rec).raised THEN <<>> ELSE PrecRecord(rec).val

\* The yields of the first n entries of recs, in order.
RECURSIVE ObsYields(_, _)
ObsYields(recs, n) == IF n = 0 THEN <<>> ELSE ObsYields(recs, n - 1) \o ObsYield(recs[n])
RECURSIVE PrecYields(_, _)
PrecYields(recs, n) == IF n = 0 THEN <<>> ELSE PrecYields(recs, n - 1) \o PrecYield(recs[n])

\* C11: at every point of either loop, and at its return, the output is
\* the in-order concatenation of what each entry processed so far yields
\* alone; an entry that is not an object or that raises adds nothing and
\* leaves the rows of the other entries as they are.
C11_PerRecordIsolation ==
    /\ Located(obsSt) => rows = ObsYields(obsLocations, obsIdx - 1)
    /\ Located(precSt) => out = PrecYields(precLocations, precIdx - 1)

\* Both parsers returned for a list whose first entry raises during
\* extraction and whose second entry is well-formed: only the second
\* entry's rows are there.
C11_Witness ==
    /\ obsSt = "returned" /\ precSt = "returned"
    /\ Len(obsLocations) = 2 /\ precLocations = obsLocations
    /\ ObsRecord(obsLocations[1]).raised /\ PrecRecord(precLocations[1]).raised
    /\ obsLocations[2] = Rec("B")
    /\ Len(rows) = 1 /\ rows[1].location = StrV("B")
    /\ Len(out) = 1 /\ out[1].location = StrV("B") /\ out[1].period = StrV("Now")

\* The run has failed to fetch, or parse_locations has returned no rows.
NothingToInsert == fetchSt = "failed" \/ (obsSt = "returned" /\ rows = <<>>)

\* C12: in a run of main() the calls happen in the order fetch,
\* parse_locations, insert_rows, parse_precipitation, insert_precip_rows,
\* each one only after the one before it has returned; when the fetch fails
\* or parse_locations returns no rows the run exits with a nonzero status,
\* the database is never opened and nothing is written.
C12_MainOrder ==
    /\ obsSt # "new" => fetchSt = "ok"
    /\ weatherSt = "done" => obsSt = "returned" /\ conn # "none"
    /\ precSt # "new" => weatherSt = "done"
    /\ precipSt = "done" => precSt = "returned" /\ weatherSt = "done"
    /\ NothingToInsert =>
          /\ conn = "none" /\ weatherSt = "new" /\ precSt = "new" /\ precipSt = "new"
          /\ weather = <<>> /\ precipitation = <<>>
          /\ pc \in {"parse_locations", "exited"}
          /\ pc = "exited" => exitStatus > 0

\* A run exited with status 1 on a document for which parse_locations
\* returns no rows although parse_precipitation would return records; the
\* database was not opened.
C12_Witness ==
    /\ pc = "exited" /\ exitStatus = 1 /\ fetchSt = "ok"
    /\ obsSt = "returned" /\ rows = <<>>
    /\ ~PrecLocate(data).raised
    /\ PrecYields(PrecLocate(data).val, Len(PrecLocate(data).val)) # <<>>
    /\ conn = "none" /\ weather = <<>> /\ precipitation = <<>>

====
